---- MODULE Spec2Model ----
(***************************************************************************)
(* Model of the ingestion / query core of the repository:                  *)
(*   backend/services/etl.py  (make_json_safe, get_filtered_data,          *)
(*                             fetch_table_data_rows,                      *)
(*                             process_and_store_data)                     *)
(*   backend/routers/data.py  (upload_file, get_file_data)                 *)
(*                                                                         *)
(* The storage backend (the Supabase client) is the environment: every     *)
(* call `....execute()` is one step whose outcome is chosen by the         *)
(* backend.  A write may be answered ("ok"), refused ("error"), or applied *)
(* with the answer lost ("error_applied": the client raises although the   *)
(* statement took effect).  Strings that the code transforms are modelled  *)
(* as sequences of one-character strings.                                  *)
(***************************************************************************)
EXTENDS Integers, Sequences, FiniteSets, TLC

\* ------------------------------------------------------------------ bounds
MaxRows == 3        \* lines of an uploaded file
batch_size == 2     \* etl.py:491 uses 50; scaled so that MaxRows spans two batches
MaxFaults == 2      \* storage writes that may go wrong over one run of the model
MaxLines == 6       \* lines of a file where extraction alone is studied

\* The ingestion requests the model follows.
Jobs == {1, 2}

\* ------------------------------------------------------------------ text
Lower(c) == CASE c = "A" -> "a" [] c = "B" -> "b" [] c = "C" -> "c"
              [] c = "S" -> "s" [] c = "V" -> "v" [] c = "X" -> "x"
              [] c = "L" -> "l" [] OTHER -> c

lower(s) == [i \in 1 .. Len(s) |-> Lower(s[i])]

endswith(s, suf) ==
    /\ Len(s) >= Len(suf)
    /\ SubSeq(s, Len(s) - Len(suf) + 1, Len(s)) = suf

replace(s, old, new) == [i \in 1 .. Len(s) |-> IF s[i] = old THEN new ELSE s[i]]

RECURSIVE remove(_, _)
remove(s, c) ==
    IF s = <<>> THEN <<>>
    ELSE IF Head(s) = c THEN remove(Tail(s), c)
    ELSE <<Head(s)>> \o remove(Tail(s), c)

\* ------------------------------------------------------------------ uuid
HexDigits == {"0", "1", "2", "3", "4", "a", "b", "c"}

\* The router's fixed owner; 32 hex digits in the source, two here.
BYPASS_USER_ID == <<"1", "-", "1">>

UuidHexLen == Len(remove(BYPASS_USER_ID, "-"))

\* uuid.UUID(s): hyphens are dropped, the rest must be UuidHexLen hex digits
\* (either case); anything else raises ValueError.
uuid_hex(s) == lower(remove(s, "-"))

uuid_valid(s) ==
    /\ Len(uuid_hex(s)) = UuidHexLen
    /\ \A i \in 1 .. Len(uuid_hex(s)) : uuid_hex(s)[i] \in HexDigits

\* str(uuid.UUID(s)): the canonical lower-case hyphenated form.
uuid_str(s) == <<uuid_hex(s)[1], "-">> \o Tail(uuid_hex(s))

\* uuid.uuid4() of the j-th request: fresh, canonical.
JobDigit == <<"2", "3", "4", "a", "b">>

\* an upload id that is not fresh: every request gets the same one
uuid4_repeated(j) == <<JobDigit[1], "-", "c">>

uuid4(j) == <<JobDigit[j], "-", "c">>

\* the id cut short before the hyphens are replaced
table_safe_id_truncated(upload_uuid) ==
    replace(SubSeq(upload_uuid, 2, Len(upload_uuid)), "-", "_")

\* etl.py:382-383
table_safe_id(upload_uuid) == replace(upload_uuid, "-", "_")
data_table_name(upload_uuid) == <<"d", "a", "t", "a", "_">> \o table_safe_id(upload_uuid)

UPLOADS_TABLE_NAME == "uploads"

\* ------------------------------------------------------------------ values
\* A Python value is [t |-> its type, v |-> its content]; scalars carry their
\* text, a dict carries a function from keys, a list a sequence.
None == [t |-> "NoneType", v |-> "None"]
NaN == [t |-> "float", v |-> "nan"]
PyStr(s) == [t |-> "str", v |-> s]
PyInt(s) == [t |-> "int", v |-> s]
PyFloat(s) == [t |-> "float", v |-> s]
PyDict(f) == [t |-> "dict", v |-> f]
PyList(q) == [t |-> "list", v |-> q]

\* bool(pd.isna(obj)) where it does not raise: a missing scalar, or a
\* one-element array holding one (pd.isna of a list is an array, and only a
\* one-element array has a truth value).
RECURSIVE isna_truthy(_)
isna_truthy(obj) ==
    IF obj.t = "list" THEN Len(obj.v) = 1 /\ isna_truthy(obj.v[1])
    ELSE \/ obj.t \in {"NoneType", "NaT"}
         \/ obj.t \in {"float", "np.float64", "np.float32"} /\ obj.v = "nan"

NonFinite == {"nan", "inf", "-inf"}

\* etl.py:180-235
RECURSIVE make_json_safe(_)
make_json_safe(obj) ==
    IF obj.t = "NoneType" THEN None
    ELSE IF isna_truthy(obj) THEN None
    ELSE IF obj.t = "dict"
        THEN PyDict([k \in DOMAIN obj.v |-> make_json_safe(obj.v[k])])
    ELSE IF obj.t = "list"
        THEN PyList([i \in 1 .. Len(obj.v) |-> make_json_safe(obj.v[i])])
    \* np.float64 is a subclass of float: it passes isinstance(obj, float)
    ELSE IF obj.t \in {"str", "int", "bool", "float", "np.float64"} THEN obj
    ELSE IF obj.t = "np.int64" THEN PyInt(obj.v)
    ELSE IF obj.t = "np.float32"
        THEN IF obj.v \in NonFinite THEN None ELSE PyFloat(obj.v)
    ELSE IF obj.t = "np.bool_" THEN [t |-> "bool", v |-> obj.v]
    ELSE PyStr(obj.v)

\* ------------------------------------------------------------------ files
\* An uploaded file: its name, what its bytes are, and (for a table) its data
\* lines, each a mapping column -> cell text ("" is an empty cell).
Columns == {"name", "amount"}
BlankLine == [name |-> "", amount |-> ""]
FullLine == [name |-> "x", amount |-> "1"]
PartialLine == [name |-> "y", amount |-> ""]
LineKinds == {BlankLine, FullLine}

RECURSIVE SeqsUpTo(_, _)
SeqsUpTo(S, n) ==
    IF n = 0 THEN {<<>>}
    ELSE LET shorter == SeqsUpTo(S, n - 1)
         IN  shorter \cup {Append(q, x) : q \in {r \in shorter : Len(r) = n - 1}, x \in S}

Filenames == { <<"f", ".", "c", "s", "v">>, <<"f", ".", "X", "L", "S", "X">>,
               <<"f", ".", "t", "x", "t">> }

\* CSV files of up to MaxRows lines, one one-line workbook, and files whose
\* bytes are no table at all.
Files ==
    {[filename |-> fn, format |-> "csv", lines |-> ls] :
        fn \in Filenames, ls \in SeqsUpTo(LineKinds, MaxRows)}
    \cup {[filename |-> fn, format |-> "excel", lines |-> <<PartialLine>>] : fn \in Filenames}
    \cup {[filename |-> fn, format |-> fm, lines |-> <<>>] :
        fn \in Filenames, fm \in {"garbage", "empty"}}

IsNumber(c) == c \in {"1", "2"}

\* The parsers' column typing: a text column is str with NaN for an empty cell;
\* a numeric column is int64 when no cell is empty and float64 otherwise.
ColumnIsInt(lines, col) == \A i \in 1 .. Len(lines) : IsNumber(lines[i][col])
ColumnIsNumeric(lines, col) ==
    /\ \A i \in 1 .. Len(lines) : lines[i][col] = "" \/ IsNumber(lines[i][col])
    /\ \E i \in 1 .. Len(lines) : lines[i][col] # ""

FloatText(c) == IF c = "1" THEN "1.0" ELSE "2.0"

ParseCell(lines, i, col) ==
    LET c == lines[i][col]
    IN  IF c = "" THEN NaN
        ELSE IF ColumnIsInt(lines, col) THEN PyInt(c)
        ELSE IF ColumnIsNumeric(lines, col) THEN PyFloat(FloatText(c))
        ELSE PyStr(c)

\* pd.read_csv / pd.read_excel (etl.py:388, 390): the rows of the data frame,
\* or Raised when the bytes are not of the parser's format.
ParseFrame(lines) ==
    [i \in 1 .. Len(lines) |-> [col \in Columns |-> ParseCell(lines, i, col)]]

Raised(e) == [raised |-> TRUE, df |-> <<>>, e |-> e]
Frame(df) == [raised |-> FALSE, df |-> df, e |-> ""]

ParserError == "Error tokenizing data"

\* A line of a CSV file with no character on it, not even a delimiter.
NoTextLine == [name |-> "", amount |-> "", text |-> ""]

\* pd.read_csv has skip_blank_lines=True: a line without text is not a row
skip_blank_lines(lines) == SelectSeq(lines, LAMBDA line : line # NoTextLine)

read_csv(file) ==
    IF file.format = "csv" THEN Frame(ParseFrame(skip_blank_lines(file.lines)))
    ELSE Raised(ParserError)
read_excel(file) ==
    IF file.format = "excel" THEN Frame(ParseFrame(file.lines)) ELSE Raised(ParserError)

CSV_SUFFIX == <<".", "c", "s", "v">>
XLS_SUFFIX == <<".", "x", "l", "s">>
XLSX_SUFFIX == <<".", "x", "l", "s", "x">>

\* etl.py:392  str() of the HTTPException raised for any other suffix
UnsupportedFormat == "400: Unsupported file format"

\* etl.py:386-394.  The "Unsupported file format" error is raised inside the
\* try block, so the handler of that block catches it like a parser's error.
Extract(file) ==
    IF endswith(lower(file.filename), CSV_SUFFIX) THEN read_csv(file)
    ELSE IF endswith(lower(file.filename), XLS_SUFFIX)
            \/ endswith(lower(file.filename), XLSX_SUFFIX) THEN read_excel(file)
    ELSE Raised(UnsupportedFormat)

\* etl.py:400  df.dropna(how="all")
AllMissing(row) == \A col \in DOMAIN row : isna_truthy(row[col])
dropna_all(df) == SelectSeq(df, LAMBDA row : ~AllMissing(row))

\* etl.py:403  df.replace({np.nan: None, pd.NaT: None})
replace_nan(df) ==
    [i \in 1 .. Len(df) |->
        [col \in DOMAIN df[i] |-> IF isna_truthy(df[i][col]) THEN None ELSE df[i][col]]]

\* etl.py:413  df.to_dict("records")
to_records(df) == [i \in 1 .. Len(df) |-> PyDict(df[i])]

\* etl.py:396-413
Transform(df) ==
    [original_rows |-> Len(df),
     cleaned_rows |-> Len(dropna_all(df)),
     records |-> to_records(replace_nan(dropna_all(df)))]

\* etl.py:473-484
RECURSIVE build_insert_rows(_, _)
build_insert_rows(records, user_uuid) ==
    IF records = <<>> THEN <<>>
    ELSE LET cleaned_record == make_json_safe(Head(records))
         IN  (IF cleaned_record.t = "dict"
                 THEN <<[user_id |-> user_uuid, row_data |-> cleaned_record]>>
                 ELSE <<>>)
             \o build_insert_rows(Tail(records), user_uuid)

\* etl.py:493-494  the batch that starts at offset i (0-based)
batch_at(insert_rows, i) ==
    SubSeq(insert_rows, i + 1, IF i + batch_size < Len(insert_rows)
                                  THEN i + batch_size ELSE Len(insert_rows))

\* ------------------------------------------------------------------ state
VARIABLES
    tables,     \* physical tables: table name -> sequence of stored rows
    uploads,    \* the catalog table "uploads": sequence of metadata rows
    pc,         \* per request: where process_and_store_data stands
    request,    \* per request: who called it, for which owner, with which file
    loc,        \* per request: the local variables of process_and_store_data
    result,     \* per request: what process_and_store_data returned or raised
    calls,      \* per request: the storage calls it issued, with what it saw
    faults,     \* backend calls that did not answer "ok" so far
    resp        \* the response of the last read entry point

vars == <<tables, uploads, pc, request, loc, result, calls, faults, resp>>

NoLoc ==
    [filename |-> <<>>, user_uuid |-> <<>>, upload_uuid |-> <<>>,
     original_rows |-> 0, cleaned_rows |-> 0, records |-> <<>>,
     insert_rows |-> <<>>, i |-> 0, k |-> 0, inserted_count |-> 0,
     create_err |-> "", e |-> ""]

NoBody ==
    [status |-> "", upload_id |-> <<>>, table_name |-> <<>>,
     original_rows |-> 0, cleaned_rows |-> 0, inserted_rows |-> 0]

NoResult == [kind |-> "none", status_code |-> 0, detail |-> <<>>, body |-> NoBody]

HTTPException(code, detail) ==
    [kind |-> "HTTPException", status_code |-> code, detail |-> detail, body |-> NoBody]

ValueError(detail) ==
    [kind |-> "ValueError", status_code |-> 0, detail |-> detail, body |-> NoBody]

Return(body) == [kind |-> "return", status_code |-> 200, detail |-> <<>>, body |-> body]

\* A read request and its response: the arguments, the HTTP status and detail,
\* the rows returned, the physical tables a select was issued on, those whose
\* select raised, the number of storage queries issued, and whether the
\* catalog query was answered; for a client that pages, the pages so far.
NoResp ==
    [op |-> "none", user_id |-> <<>>, upload_id |-> <<>>, table_names |-> <<>>,
     limit |-> 0, offset |-> 0, status_code |-> 0, detail |-> <<>>,
     data |-> <<>>, selected |-> <<>>, skipped |-> {}, queries |-> 0,
     lookup |-> "none", pages |-> <<>>]

NoRequest == [via |-> "none", user_id |-> <<>>, filename |-> <<>>, format |-> ""]

Request(via, user_id, file) ==
    [via |-> via, user_id |-> user_id, filename |-> file.filename, format |-> file.format]

\* ------------------------------------------------------------------ storage
TableExists(tn) == tn \in DOMAIN tables

RowIdText == <<"r1", "r2", "r3", "r4", "r5", "r6", "r7", "r8", "r9", "r10", "r11", "r12">>

\* gen_random_uuid() of the n-th row stored in a table
RowId(n) == RowIdText[n]

\* CREATE TABLE IF NOT EXISTS / the provisioning procedure, applied
CreatedTables(tn) ==
    IF TableExists(tn) THEN tables
    ELSE [n \in DOMAIN tables \cup {tn} |-> IF n = tn THEN <<>> ELSE tables[n]]

\* DROP TABLE IF EXISTS ... CASCADE, applied
DroppedTables(tn) == [n \in DOMAIN tables \ {tn} |-> tables[n]]

\* the rows an INSERT of `rows` stores: the backend fills in the id
StoredRows(tn, rows) ==
    [n \in 1 .. Len(rows) |->
        [id |-> RowId(Len(tables[tn]) + n),
         user_id |-> rows[n].user_id,
         row_data |-> rows[n].row_data]]

InsertedTables(tn, rows) == [tables EXCEPT ![tn] = @ \o StoredRows(tn, rows)]

\* What the backend may answer to a write.
WriteOutcomes == {"ok", "error", "error_applied"}
BulkOutcomes == {"ok", "ok_nodata", "error", "error_applied"}
ProbeOutcomes == {"ok", "error"}
ReadOutcomes == {"ok", "error"}

Applied(o) == o \in {"ok", "ok_nodata", "error_applied"}
Raises(o) == o \in {"error", "error_applied"}

Allowed(o) == o = "ok" \/ faults < MaxFaults
Charged(o) == IF o = "ok" THEN faults ELSE faults + 1

Seen(op, o) == [op |-> op, seen |-> IF Raises(o) THEN "raise" ELSE "ok"]

\* ------------------------------------------------------------------ ingestion
\* process_and_store_data, one step per storage call; the local computation
\* that follows a call belongs to that call's step.

Init ==
    /\ tables = <<>>
    /\ uploads = <<>>
    /\ pc = [j \in Jobs |-> "idle"]
    /\ request = [j \in Jobs |-> NoRequest]
    /\ loc = [j \in Jobs |-> NoLoc]
    /\ result = [j \in Jobs |-> NoResult]
    /\ calls = [j \in Jobs |-> <<>>]
    /\ faults = 0
    /\ resp = NoResp

\* the request ends: the function returns or raises `r`
Finish(j, r) ==
    /\ pc' = [pc EXCEPT ![j] = "done"]
    /\ loc' = [loc EXCEPT ![j] = NoLoc]
    /\ result' = [result EXCEPT ![j] = r]

Goto(j, label, l) ==
    /\ pc' = [pc EXCEPT ![j] = label]
    /\ loc' = [loc EXCEPT ![j] = l]
    /\ UNCHANGED result

\* a handler that re-raises whatever it catches
SkipsCleanup_always(exc) == TRUE

\* etl.py:535-537  `except HTTPException: raise` comes first: an HTTPException
\* raised inside the try block leaves without the cleanup.
SkipsCleanup(exc) == exc.kind = "HTTPException"

\* an exception `exc` raised inside the try block of etl.py:421-533
RaiseInTry(j, exc, l) ==
    IF SkipsCleanup(exc) THEN Finish(j, exc)
    ELSE Goto(j, "cleanup", [l EXCEPT !.e = exc.detail[1]])

APIError(what) == [kind |-> "APIError", status_code |-> 0, detail |-> <<what>>, body |-> NoBody]

\* a failed read reported as a processing error
FileReadFailed_500(e) == HTTPException(500, <<"File read failed", e>>)

\* etl.py:393-394  f"File read failed: {e}"
FileReadFailed(e) == HTTPException(400, <<"File read failed", e>>)

\* etl.py:416
EmptyAfterCleaning == HTTPException(400, <<"No data found in file after cleaning">>)

\* etl.py:487
NoValidRows == HTTPException(400, <<"No valid data to insert">>)

\* the zero-count failure raised as a caller error
NoRowsInsertedError_400 == HTTPException(400, <<"No rows were successfully inserted">>)

\* etl.py:511
NoRowsInsertedError == HTTPException(500, <<"No rows were successfully inserted">>)

\* etl.py:386-419  extract, transform and the owner's UUID, up to the first
\* storage call.
process_and_store_data(j, file, user_id) ==
    LET ex == Extract(file)
        tr == Transform(ex.df)
    IN  IF ex.raised
            THEN Finish(j, FileReadFailed(ex.e))
        ELSE IF tr.records = <<>>
            THEN Finish(j, EmptyAfterCleaning)
        ELSE IF ~uuid_valid(user_id)
            THEN Finish(j, ValueError(<<"badly formed hexadecimal UUID string">>))
        ELSE Goto(j, "create1",
                  [NoLoc EXCEPT !.filename = file.filename,
                                !.user_uuid = uuid_str(user_id),
                                !.upload_uuid = uuid4(j),
                                !.original_rows = tr.original_rows,
                                !.cleaned_rows = tr.cleaned_rows,
                                !.records = tr.records])

\* Requests are numbered in the order they arrive; served one at a time, a
\* request starts when those before it are done.
Arrives(j) == \A k \in Jobs : k < j => pc[k] = "done"

\* Users other callers of the service pass (background.py:43).
ServiceUserIds == { <<"A", "2">>, <<"z", "-", "9">> }

\* a direct call of the service function
CallService(j, files) ==
    /\ pc[j] = "idle"
    /\ \E file \in files, user_id \in ServiceUserIds :
          /\ process_and_store_data(j, file, user_id)
          /\ request' = [request EXCEPT ![j] = Request("service", user_id, file)]
    /\ UNCHANGED <<tables, uploads, calls, faults, resp>>

SupportedSuffix(filename) ==
    \/ endswith(lower(filename), CSV_SUFFIX)
    \/ endswith(lower(filename), XLS_SUFFIX)
    \/ endswith(lower(filename), XLSX_SUFFIX)

\* data.py:32-61  POST /data/upload
upload_file(j, files) ==
    /\ pc[j] = "idle"
    /\ \E file \in files :
          /\ IF ~SupportedSuffix(file.filename)
                THEN Finish(j, HTTPException(400, <<"Only CSV and Excel files are supported">>))
             ELSE IF file.format = "empty"
                THEN Finish(j, HTTPException(400, <<"Uploaded file is empty">>))
             ELSE process_and_store_data(j, file, BYPASS_USER_ID)
          /\ request' = [request EXCEPT ![j] = Request("upload_file", BYPASS_USER_ID, file)]
    /\ UNCHANGED <<tables, uploads, calls, faults, resp>>

\* the two entry points, with requests served one at a time
SerialService(j, files) == Arrives(j) /\ CallService(j, files)
SerialUpload(j, files) == Arrives(j) /\ upload_file(j, files)

\* data.py:63-82  what POST /data/upload answers for a finished request
upload_file_status(j) ==
    IF result[j].kind = "return" THEN 200
    ELSE IF result[j].kind = "HTTPException" THEN result[j].status_code
    ELSE 500

\* etl.py:473-487  after provisioning: wrap the records, start the batches
StartLoad(j) ==
    LET rows == build_insert_rows(loc[j].records, loc[j].user_uuid)
    IN  IF rows = <<>>
            THEN RaiseInTry(j, NoValidRows, loc[j])
        ELSE Goto(j, "bulk", [loc[j] EXCEPT !.insert_rows = rows, !.i = 0,
                                              !.k = 0, !.inserted_count = 0])

\* etl.py:434-440  strategy 1: rpc exec_sql, CREATE TABLE IF NOT EXISTS
CreateTable(j) ==
    /\ pc[j] = "create1"
    /\ \E o \in WriteOutcomes :
        /\ Allowed(o)
        /\ faults' = Charged(o)
        /\ tables' = IF Applied(o) THEN CreatedTables(data_table_name(loc[j].upload_uuid))
                     ELSE tables
        /\ calls' = [calls EXCEPT ![j] = Append(@, Seen("exec_sql_create", o))]
        /\ IF Raises(o)
              THEN Goto(j, "create2", [loc[j] EXCEPT !.create_err = "exec_sql failed"])
              ELSE StartLoad(j)
    /\ UNCHANGED <<uploads, request, resp>>

\* strategy 2 with its failure only logged: the load starts all the same
CreateTableRpc_load_on_failure(j) ==
    /\ pc[j] = "create2"
    /\ \E o \in WriteOutcomes :
        /\ Allowed(o)
        /\ faults' = Charged(o)
        /\ tables' = IF Applied(o) THEN CreatedTables(data_table_name(loc[j].upload_uuid))
                     ELSE tables
        /\ calls' = [calls EXCEPT ![j] = Append(@, Seen("create_unique_data_table", o))]
        /\ StartLoad(j)
    /\ UNCHANGED <<uploads, request, resp>>

\* etl.py:445-453  strategy 2: rpc create_unique_data_table
CreateTableRpc(j) ==
    /\ pc[j] = "create2"
    /\ \E o \in WriteOutcomes :
        /\ Allowed(o)
        /\ faults' = Charged(o)
        /\ tables' = IF Applied(o) THEN CreatedTables(data_table_name(loc[j].upload_uuid))
                     ELSE tables
        /\ calls' = [calls EXCEPT ![j] = Append(@, Seen("create_unique_data_table", o))]
        /\ IF Raises(o) THEN Goto(j, "probe", loc[j]) ELSE StartLoad(j)
    /\ UNCHANGED <<uploads, request, resp>>

\* the failure carrying the error of strategy 2 instead
FailedToCreate_rpc_err(l) ==
    HTTPException(500, <<"Failed to create table", "create_unique_data_table failed">>)

\* etl.py:464-466  f"Failed to create table: {str(create_err)}"
FailedToCreate(l) == HTTPException(500, <<"Failed to create table", l.create_err>>)

\* the probe reading its answer wrongly: the table is never found
CheckTableExists_never_found(j) ==
    /\ pc[j] = "probe"
    /\ \E o \in ProbeOutcomes :
        /\ Allowed(o)
        /\ faults' = Charged(o)
        /\ calls' = [calls EXCEPT ![j] = Append(@, Seen("execute_sql_check", o))]
        /\ RaiseInTry(j, FailedToCreate(loc[j]), loc[j])
    /\ UNCHANGED <<tables, uploads, request, resp>>

\* etl.py:458-466  strategy 3: does the table exist already?
CheckTableExists(j) ==
    /\ pc[j] = "probe"
    /\ \E o \in ProbeOutcomes :
        /\ Allowed(o)
        /\ faults' = Charged(o)
        /\ calls' = [calls EXCEPT ![j] = Append(@, Seen("execute_sql_check", o))]
        /\ IF ~Raises(o) /\ TableExists(data_table_name(loc[j].upload_uuid))
              THEN StartLoad(j)
              ELSE RaiseInTry(j, FailedToCreate(loc[j]), loc[j])
    /\ UNCHANGED <<tables, uploads, request, resp>>

\* the check after the last batch left out
NoRowsInserted_unchecked(inserted_count) == FALSE

\* etl.py:510  the check after the last batch
NoRowsInserted(inserted_count) == inserted_count = 0

\* etl.py:493, 510-511  the batch at loc[j].i is finished with `cnt` rows counted
NextBatch(j, cnt) ==
    LET l == [loc[j] EXCEPT !.i = @ + batch_size, !.k = 0, !.inserted_count = cnt]
    IN  IF l.i < Len(l.insert_rows) THEN Goto(j, "bulk", l)
        ELSE IF NoRowsInserted(cnt)
            THEN RaiseInTry(j, NoRowsInsertedError, l)
        ELSE Goto(j, "catalog", l)

\* etl.py:497  len(response.data) if response.data else 0
ReportedCount(o, batch) == IF o = "ok" THEN Len(batch) ELSE 0

\* etl.py:494-500  the bulk insert of one batch
InsertBatch(j) ==
    /\ pc[j] = "bulk"
    /\ LET tn == data_table_name(loc[j].upload_uuid)
           batch == batch_at(loc[j].insert_rows, loc[j].i)
       IN  \E o \in BulkOutcomes :
            /\ Allowed(o)
            /\ Applied(o) => TableExists(tn)
            /\ faults' = Charged(o)
            /\ tables' = IF Applied(o) THEN InsertedTables(tn, batch) ELSE tables
            /\ calls' = [calls EXCEPT ![j] = Append(@, Seen("insert_batch", o))]
            /\ IF Raises(o)
                  THEN Goto(j, "single", [loc[j] EXCEPT !.k = 1])
                  ELSE NextBatch(j, loc[j].inserted_count + ReportedCount(o, batch))
    /\ UNCHANGED <<uploads, request, resp>>

\* the fallback without its inner try block: a single-row insert that raises
\* ends the load
InsertSingle_abort_on_failure(j) ==
    /\ pc[j] = "single"
    /\ LET tn == data_table_name(loc[j].upload_uuid)
           batch == batch_at(loc[j].insert_rows, loc[j].i)
           single_row == batch[loc[j].k]
       IN  \E o \in WriteOutcomes :
            /\ Allowed(o)
            /\ Applied(o) => TableExists(tn)
            /\ faults' = Charged(o)
            /\ tables' = IF Applied(o) THEN InsertedTables(tn, <<single_row>>) ELSE tables
            /\ calls' = [calls EXCEPT ![j] = Append(@, Seen("insert_single", o))]
            /\ IF Raises(o)
                  THEN RaiseInTry(j, APIError("insert failed"), loc[j])
               ELSE IF loc[j].k < Len(batch)
                  THEN Goto(j, "single", [loc[j] EXCEPT !.k = @ + 1,
                                                        !.inserted_count = @ + 1])
               ELSE NextBatch(j, loc[j].inserted_count + 1)
    /\ UNCHANGED <<uploads, request, resp>>

\* etl.py:503-508  the fallback: one insert per row of the failed batch
InsertSingle(j) ==
    /\ pc[j] = "single"
    /\ LET tn == data_table_name(loc[j].upload_uuid)
           batch == batch_at(loc[j].insert_rows, loc[j].i)
           single_row == batch[loc[j].k]
       IN  \E o \in WriteOutcomes :
            /\ Allowed(o)
            /\ Applied(o) => TableExists(tn)
            /\ faults' = Charged(o)
            /\ tables' = IF Applied(o) THEN InsertedTables(tn, <<single_row>>) ELSE tables
            /\ calls' = [calls EXCEPT ![j] = Append(@, Seen("insert_single", o))]
            /\ LET cnt == IF Raises(o) THEN loc[j].inserted_count
                          ELSE loc[j].inserted_count + 1
               IN  IF loc[j].k < Len(batch)
                      THEN Goto(j, "single", [loc[j] EXCEPT !.k = @ + 1,
                                                            !.inserted_count = cnt])
                      ELSE NextBatch(j, cnt)
    /\ UNCHANGED <<uploads, request, resp>>

\* the catalog row counting the rows inserted instead of the rows cleaned
Metadata_inserted_count(l) ==
    [id |-> l.upload_uuid,
     user_id |-> l.user_uuid,
     filename |-> l.filename,
     table_name |-> data_table_name(l.upload_uuid),
     rows |-> l.inserted_count]

\* etl.py:514-521
Metadata(l) ==
    [id |-> l.upload_uuid,
     user_id |-> l.user_uuid,
     filename |-> l.filename,
     table_name |-> data_table_name(l.upload_uuid),
     rows |-> l.cleaned_rows]

\* etl.py:526-533
Success(l) ==
    Return([status |-> "success",
            upload_id |-> l.upload_uuid,
            table_name |-> data_table_name(l.upload_uuid),
            original_rows |-> l.original_rows,
            cleaned_rows |-> l.cleaned_rows,
            inserted_rows |-> l.inserted_count])

\* etl.py:523  the catalog insert
InsertMetadata(j) ==
    /\ pc[j] = "catalog"
    /\ \E o \in WriteOutcomes :
        /\ Allowed(o)
        /\ faults' = Charged(o)
        /\ uploads' = IF Applied(o) THEN Append(uploads, Metadata(loc[j])) ELSE uploads
        /\ calls' = [calls EXCEPT ![j] = Append(@, Seen("insert_uploads", o))]
        /\ IF Raises(o)
              THEN RaiseInTry(j, APIError("insert into uploads failed"), loc[j])
              ELSE Finish(j, Success(loc[j]))
    /\ UNCHANGED <<tables, request, resp>>

\* the cleanup without its own try block: a drop that raises leaves with its
\* own error
CleanupDrop_unguarded(j) ==
    /\ pc[j] = "cleanup"
    /\ \E o \in WriteOutcomes :
        /\ Allowed(o)
        /\ faults' = Charged(o)
        /\ tables' = IF Applied(o) THEN DroppedTables(data_table_name(loc[j].upload_uuid))
                     ELSE tables
        /\ calls' = [calls EXCEPT ![j] = Append(@, Seen("exec_sql_drop", o))]
        /\ IF Raises(o) THEN Finish(j, APIError("exec_sql failed"))
           ELSE Finish(j, HTTPException(500, <<"ETL processing failed", loc[j].e>>))
    /\ UNCHANGED <<uploads, request, resp>>

\* etl.py:537-548  cleanup on failure: DROP TABLE IF EXISTS, then raise 500
CleanupDrop(j) ==
    /\ pc[j] = "cleanup"
    /\ \E o \in WriteOutcomes :
        /\ Allowed(o)
        /\ faults' = Charged(o)
        /\ tables' = IF Applied(o) THEN DroppedTables(data_table_name(loc[j].upload_uuid))
                     ELSE tables
        /\ calls' = [calls EXCEPT ![j] = Append(@, Seen("exec_sql_drop", o))]
        /\ Finish(j, HTTPException(500, <<"ETL processing failed", loc[j].e>>))
    /\ UNCHANGED <<uploads, request, resp>>

\* ------------------------------------------------------------------ reads
RECURSIVE Text(_)
Text(s) == IF s = <<>> THEN "" ELSE Head(s) \o Text(Tail(s))

Take(q, n) == SubSeq(q, 1, IF n < Len(q) THEN n ELSE Len(q))

\* Python's q[a:b]
PyIndex(q, a) == IF a < 0 THEN (IF Len(q) + a < 0 THEN 0 ELSE Len(q) + a)
                 ELSE IF a > Len(q) THEN Len(q) ELSE a
PySlice(q, a, b) == SubSeq(q, PyIndex(q, a) + 1, PyIndex(q, b))

Min(a, b) == IF a < b THEN a ELSE b

\* the select without its LIMIT
SelectRows_no_limit(tn, user_uuid, limit) ==
    SelectSeq(tables[tn], LAMBDA r : r.user_id = user_uuid)

\* SELECT id, user_id, row_data FROM tn WHERE user_id = user_uuid LIMIT limit
SelectRows(tn, user_uuid, limit) ==
    Take(SelectSeq(tables[tn], LAMBDA r : r.user_id = user_uuid), limit)

\* the metadata written under the storage column names, without the prefix
FlattenPreview_unprefixed(item) ==
    IF item.row_data.t = "dict"
        THEN [k \in DOMAIN item.row_data.v \cup {"id", "user_id"} |->
                IF k = "id" THEN PyStr(item.id)
                ELSE IF k = "user_id" THEN PyStr(Text(item.user_id))
                ELSE item.row_data.v[k]]
        ELSE [id |-> PyStr(item.id), user_id |-> PyStr(Text(item.user_id)),
              row_data |-> item.row_data]

\* etl.py:346-356  one stored row, flattened for the preview
FlattenPreview(item) ==
    IF item.row_data.t = "dict"
        THEN [k \in DOMAIN item.row_data.v \cup {"_record_id", "_user_id"} |->
                IF k = "_record_id" THEN PyStr(item.id)
                ELSE IF k = "_user_id" THEN PyStr(Text(item.user_id))
                ELSE item.row_data.v[k]]
        ELSE [id |-> PyStr(item.id), user_id |-> PyStr(Text(item.user_id)),
              row_data |-> item.row_data]

\* etl.py:279-287  one stored row, flattened for the analytics query
FlattenAnalytics(item, table_name) ==
    IF item.row_data.t = "dict"
        THEN [k \in DOMAIN item.row_data.v \cup {"_source_table", "_record_id"} |->
                IF k = "_source_table" THEN PyStr(Text(table_name))
                ELSE IF k = "_record_id" THEN PyStr(item.id)
                ELSE item.row_data.v[k]]
        ELSE [id |-> PyStr(item.id), user_id |-> PyStr(Text(item.user_id)),
              row_data |-> item.row_data, _source_table |-> PyStr(Text(table_name))]

FlattenAll(rows, F(_)) == [n \in 1 .. Len(rows) |-> F(rows[n])]

\* the catalog lookup without its owner filter
OwnedUpload_any_owner(upload_id, user_uuid) ==
    SelectSeq(uploads, LAMBDA m : m.id = upload_id)

\* etl.py:315-323  the catalog rows of this upload id and owner
OwnedUpload(upload_id, user_uuid) ==
    SelectSeq(uploads, LAMBDA m : m.id = upload_id /\ m.user_id = user_uuid)

\* etl.py:307-369.  o1 and o2 are the backend's answers to the catalog query
\* and to the select on the physical table.
fetch_table_data_rows(upload_id, user_id, limit, o1, o2) ==
    LET req == [NoResp EXCEPT !.op = "fetch_table_data_rows", !.upload_id = upload_id,
                              !.user_id = user_id, !.limit = limit]
    IN  IF ~uuid_valid(user_id)
            THEN [req EXCEPT !.status_code = 400, !.detail = <<"Invalid user ID format">>]
        ELSE LET user_uuid == uuid_str(user_id)
                 found == OwnedUpload(upload_id, user_uuid)
             IN  IF o1 = "error" \/ Len(found) > 1
                     THEN [req EXCEPT !.status_code = 500, !.queries = 1,
                                      !.lookup = IF o1 = "error" THEN "error" ELSE "ok",
                                      !.detail = <<"Failed to fetch preview data">>]
                 ELSE IF found = <<>>
                     THEN [req EXCEPT !.status_code = 404, !.queries = 1, !.lookup = "ok",
                                      !.detail = <<"Dataset not found for upload_id">>]
                 ELSE LET table_name == found[1].table_name
                      IN  IF o2 = "error" \/ ~TableExists(table_name)
                              THEN [req EXCEPT !.status_code = 500, !.queries = 2,
                                               !.lookup = "ok",
                                               !.selected = <<table_name>>,
                                               !.detail = <<"Failed to fetch preview data">>]
                          ELSE [req EXCEPT !.status_code = 200, !.queries = 2,
                                           !.lookup = "ok",
                                           !.selected = <<table_name>>,
                                           !.data = FlattenAll(
                                               SelectRows(table_name, user_uuid, limit),
                                               FlattenPreview)]

MAX_PREVIEW_LIMIT == 1000

\* the upper limit check off by one
LimitTooLarge_off_by_one(limit) == limit > MAX_PREVIEW_LIMIT + 1

\* data.py:119  and  data.py:125
LimitTooLarge(limit) == limit > MAX_PREVIEW_LIMIT
LimitNotPositive(limit) == limit <= 0

\* data.py:111-147  GET /data/file/{upload_id}
get_file_data(upload_id, limit, o1, o2) ==
    LET req == [NoResp EXCEPT !.op = "get_file_data", !.upload_id = upload_id,
                              !.user_id = BYPASS_USER_ID, !.limit = limit]
    IN  IF LimitTooLarge(limit)
            THEN [req EXCEPT !.status_code = 400,
                             !.detail = <<"Limit cannot exceed 1000 rows for preview.">>]
        ELSE IF LimitNotPositive(limit)
            THEN [req EXCEPT !.status_code = 400, !.detail = <<"Limit must be positive">>]
        ELSE [fetch_table_data_rows(upload_id, BYPASS_USER_ID, limit, o1, o2)
                 EXCEPT !.op = "get_file_data"]

\* the catalog rows of the named tables, whoever owns them
ResolvedTables_any_owner(user_uuid, table_names) ==
    LET named == SelectSeq(uploads, LAMBDA m :
                     IF table_names = <<>> THEN m.user_id = user_uuid
                     ELSE \E n \in 1 .. Len(table_names) : table_names[n] = m.table_name)
    IN  [n \in 1 .. Len(named) |-> named[n].table_name]

\* etl.py:249-264  the owner's catalog rows, restricted to table_names if given
ResolvedTables(user_uuid, table_names) ==
    LET owned == SelectSeq(uploads, LAMBDA m :
                     /\ m.user_id = user_uuid
                     /\ table_names # <<>> =>
                            \E n \in 1 .. Len(table_names) : table_names[n] = m.table_name)
    IN  [n \in 1 .. Len(owned) |-> owned[n].table_name]

\* etl.py:267-291  the rows of the resolved tables; a table whose select
\* raises (it is in `bad`, or it is gone) is skipped
RECURSIVE all_results(_, _, _, _)
all_results(table_names, user_uuid, limit, bad) ==
    IF table_names = <<>> THEN <<>>
    ELSE LET table_name == Head(table_names)
             rows == IF table_name \in bad \/ ~TableExists(table_name) THEN <<>>
                     ELSE SelectRows(table_name, user_uuid, limit)
         IN  [n \in 1 .. Len(rows) |-> FlattenAnalytics(rows[n], table_name)]
             \o all_results(Tail(table_names), user_uuid, limit, bad)

\* etl.py:241-301.  `filters` is the DataFilter (table_names <<>> stands for
\* None); o1 is the backend's answer to the catalog query, `bad` the tables
\* whose select the backend refuses.
get_filtered_data(filters, user_id, o1, bad) ==
    LET req == [NoResp EXCEPT !.op = "get_filtered_data", !.user_id = user_id,
                              !.table_names = filters.table_names,
                              !.limit = filters.limit, !.offset = filters.offset]
        failed == [req EXCEPT !.status_code = 500,
                              !.detail = <<"Failed to retrieve analytics data">>]
    IN  IF ~uuid_valid(user_id) THEN failed
        ELSE IF o1 = "error" THEN [failed EXCEPT !.queries = 1, !.lookup = "error"]
        ELSE LET user_uuid == uuid_str(user_id)
                 table_names == ResolvedTables(user_uuid, filters.table_names)
                 results == all_results(table_names, user_uuid, filters.limit, bad)
                 start_idx == Min(filters.offset, Len(results))
                 end_idx == Min(filters.offset + filters.limit, Len(results))
             IN  [req EXCEPT !.status_code = 200, !.lookup = "ok",
                             !.queries = 1 + Len(table_names),
                             !.selected = table_names,
                             !.skipped = {table_names[n] : n \in
                                 {m \in 1 .. Len(table_names) :
                                     \/ table_names[m] \in bad
                                     \/ ~TableExists(table_names[m])}},
                             !.data = PySlice(results, start_idx, end_idx)]

\* What callers of the read entry points pass.
UnknownUploadId == <<"0", "-", "0">>
UploadIdInputs == {uuid4(j) : j \in Jobs} \cup {UnknownUploadId}
UserIdInputs == {BYPASS_USER_ID, <<"A", "2">>, <<"z", "-", "9">>}
ServiceLimits == {1, 1000}
RouterLimits == {-1, 0, 1, 1000, 1001, 1500}
TableNameInputs ==
    { <<>>, <<data_table_name(uuid4(1))>>,
      <<data_table_name(uuid4(2)), data_table_name(uuid4(1))>> }
FilterInputs ==
    [table_names : TableNameInputs, limit : {1, 1000}, offset : {0, 1}]

\* The model follows one read request, which arrives after the uploads.
ReadArrives == resp.op = "none" /\ \A j \in Jobs : pc[j] = "done"

\* the backend's answers to the two queries of a preview
PreviewOutcomes == {<<"ok", "ok">>, <<"error", "ok">>, <<"ok", "error">>}

FetchRows ==
    /\ ReadArrives
    /\ \E upload_id \in UploadIdInputs, user_id \in ServiceUserIds, limit \in ServiceLimits,
          o \in PreviewOutcomes :
            resp' = fetch_table_data_rows(upload_id, user_id, limit, o[1], o[2])
    /\ UNCHANGED <<tables, uploads, pc, request, loc, result, calls, faults>>

GetFileData ==
    /\ ReadArrives
    /\ \E upload_id \in UploadIdInputs, limit \in RouterLimits, o \in PreviewOutcomes :
            resp' = get_file_data(upload_id, limit, o[1], o[2])
    /\ UNCHANGED <<tables, uploads, pc, request, loc, result, calls, faults>>

GetFilteredData ==
    /\ ReadArrives
    /\ \E filters \in FilterInputs, user_id \in UserIdInputs, o1 \in ReadOutcomes,
          bad \in {{}, {data_table_name(uuid4(1))}} :
            resp' = get_filtered_data(filters, user_id, o1, bad)
    /\ UNCHANGED <<tables, uploads, pc, request, loc, result, calls, faults>>

\* The files uploaded where the read entry points are studied.
QueryFiles ==
    { [filename |-> <<"f", ".", "t", "x", "t">>, format |-> "garbage", lines |-> <<>>],
      [filename |-> <<"f", ".", "c", "s", "v">>, format |-> "csv",
       lines |-> <<FullLine, FullLine, FullLine>>],
      [filename |-> <<"f", ".", "X", "L", "S", "X">>, format |-> "excel",
       lines |-> <<PartialLine>>] }

Next ==
    \/ \E j \in Jobs : SerialService(j, Files)
    \/ \E j \in Jobs : SerialUpload(j, Files)
    \/ \E j \in Jobs : CreateTable(j)
    \/ \E j \in Jobs : CreateTableRpc(j)
    \/ \E j \in Jobs : CheckTableExists(j)
    \/ \E j \in Jobs : InsertBatch(j)
    \/ \E j \in Jobs : InsertSingle(j)
    \/ \E j \in Jobs : InsertMetadata(j)
    \/ \E j \in Jobs : CleanupDrop(j)

Spec == Init /\ [][Next]_vars

NextQuery ==
    \/ \E j \in Jobs : SerialService(j, QueryFiles)
    \/ \E j \in Jobs : SerialUpload(j, QueryFiles)
    \/ \E j \in Jobs : CreateTable(j)
    \/ \E j \in Jobs : CreateTableRpc(j)
    \/ \E j \in Jobs : CheckTableExists(j)
    \/ \E j \in Jobs : InsertBatch(j)
    \/ \E j \in Jobs : InsertSingle(j)
    \/ \E j \in Jobs : InsertMetadata(j)
    \/ \E j \in Jobs : CleanupDrop(j)
    \/ FetchRows
    \/ GetFileData
    \/ GetFilteredData

SpecQuery == Init /\ [][NextQuery]_vars

\* Two ingestions whose storage calls interleave freely: the event loop may
\* switch requests at every await, and background tasks run beside routes.
ConcurrentFiles ==
    { [filename |-> <<"f", ".", "c", "s", "v">>, format |-> "csv",
       lines |-> <<FullLine, FullLine, FullLine>>],
      [filename |-> <<"f", ".", "X", "L", "S", "X">>, format |-> "excel",
       lines |-> <<PartialLine>>] }

NextConcurrent ==
    \/ \E j \in Jobs : CallService(j, ConcurrentFiles)
    \/ \E j \in Jobs : upload_file(j, ConcurrentFiles)
    \/ \E j \in Jobs : CreateTable(j)
    \/ \E j \in Jobs : CreateTableRpc(j)
    \/ \E j \in Jobs : CheckTableExists(j)
    \/ \E j \in Jobs : InsertBatch(j)
    \/ \E j \in Jobs : InsertSingle(j)
    \/ \E j \in Jobs : InsertMetadata(j)
    \/ \E j \in Jobs : CleanupDrop(j)

SpecConcurrent == Init /\ [][NextConcurrent]_vars

\* An ingestion whose two creation strategies have both raised, taken up at
\* the existence probe: the table is there when one of the two creations was
\* applied before it raised. The backend's faults are counted from here on.
ProbeFile ==
    [filename |-> <<"f", ".", "c", "s", "v">>, format |-> "csv",
     lines |-> <<FullLine, BlankLine, FullLine>>]

AtProbeLoc ==
    LET tr == Transform(Extract(ProbeFile).df)
    IN  [NoLoc EXCEPT !.filename = ProbeFile.filename,
                      !.user_uuid = uuid_str(BYPASS_USER_ID),
                      !.upload_uuid = uuid4(1),
                      !.original_rows = tr.original_rows,
                      !.cleaned_rows = tr.cleaned_rows,
                      !.records = tr.records,
                      !.create_err = "exec_sql failed"]

InitProbe ==
    /\ \E created \in BOOLEAN :
          tables = IF created THEN [n \in {data_table_name(uuid4(1))} |-> <<>>] ELSE <<>>
    /\ uploads = <<>>
    /\ pc = [j \in Jobs |-> IF j = 1 THEN "probe" ELSE "idle"]
    /\ request = [j \in Jobs |->
                    IF j = 1 THEN Request("upload_file", BYPASS_USER_ID, ProbeFile)
                    ELSE NoRequest]
    /\ loc = [j \in Jobs |-> IF j = 1 THEN AtProbeLoc ELSE NoLoc]
    /\ result = [j \in Jobs |-> NoResult]
    /\ calls = [j \in Jobs |->
                  IF j = 1 THEN <<Seen("exec_sql_create", "error"),
                                  Seen("create_unique_data_table", "error")>>
                  ELSE <<>>]
    /\ faults = 0
    /\ resp = NoResp

SpecProbe == InitProbe /\ [][Next]_vars

\* The values make_json_safe is applied to: the scalars pandas and numpy put
\* in a record, and lists and dicts of them.
ScalarInputs ==
    { None, [t |-> "NaT", v |-> "NaT"],
      PyStr("x"), PyInt("1"), [t |-> "bool", v |-> "True"],
      [t |-> "np.int64", v |-> "1"], [t |-> "np.bool_", v |-> "True"],
      [t |-> "Timestamp", v |-> "2020-01-01 00:00:00"], [t |-> "Decimal", v |-> "1.5"] }
    \cup { [t |-> ty, v |-> x] : ty \in {"float", "np.float64", "np.float32"},
                                 x \in NonFinite \cup {"1.5"} }

ListInputs ==
    { PyList(<<>>) } \cup { PyList(<<x>>) : x \in ScalarInputs }
    \cup { PyList(<<x, y>>) : x, y \in {None, NaN, PyStr("x"), [t |-> "np.float32", v |-> "inf"]} }

NormalizerInputs ==
    ScalarInputs \cup ListInputs
    \cup { PyList(<<x>>) : x \in ListInputs }
    \cup { PyDict([k \in {"name"} |-> x]) : x \in ScalarInputs \cup ListInputs }

\* one application of make_json_safe: the argument and what it returns
Normalize ==
    /\ \E obj \in NormalizerInputs :
          resp' = [NoResp EXCEPT !.op = "make_json_safe",
                                 !.data = <<obj, make_json_safe(obj)>>]
    /\ UNCHANGED <<tables, uploads, pc, request, loc, result, calls, faults>>

SpecNormalize == Init /\ [][Normalize]_vars

\* Storage after one upload whose single row has an arbitrary payload: the
\* column names a file may carry include those of the metadata fields.
PayloadKeys == {"name", "id", "_record_id", "_user_id"}
CellValues == {PyStr("x"), None}
StoredPayloads == UNION {[K -> CellValues] : K \in (SUBSET PayloadKeys) \ {{}}}
StoredOwners == {BYPASS_USER_ID, <<"A", "2">>}
StoredFilename == <<"f", ".", "c", "s", "v">>

StoredLoc(user_id) ==
    [NoLoc EXCEPT !.filename = StoredFilename, !.user_uuid = uuid_str(user_id),
                  !.upload_uuid = uuid4(1), !.original_rows = 1, !.cleaned_rows = 1,
                  !.inserted_count = 1]

InitStored ==
    \E payload \in StoredPayloads, user_id \in StoredOwners :
        /\ tables = (data_table_name(uuid4(1)) :>
                        <<[id |-> RowId(1), user_id |-> uuid_str(user_id),
                           row_data |-> make_json_safe(PyDict(payload))]>>)
        /\ uploads = <<Metadata(StoredLoc(user_id))>>
        /\ pc = [j \in Jobs |-> "done"]
        /\ request = [j \in Jobs |->
                        [via |-> "service", user_id |-> user_id,
                         filename |-> StoredFilename,
                         format |-> IF j = 1 THEN "csv" ELSE "garbage"]]
        /\ loc = [j \in Jobs |-> NoLoc]
        /\ result = [j \in Jobs |-> IF j = 1 THEN Success(StoredLoc(user_id))
                                    ELSE FileReadFailed(ParserError)]
        /\ calls = [j \in Jobs |->
                      IF j = 1 THEN <<Seen("exec_sql_create", "ok"), Seen("insert_batch", "ok"),
                                      Seen("insert_uploads", "ok")>>
                      ELSE <<>>]
        /\ faults = 0
        /\ resp = NoResp

NextStored ==
    \/ FetchRows
    \/ GetFileData
    \/ GetFilteredData

SpecStored == InitStored /\ [][NextStored]_vars

\* Extraction and transformation alone (etl.py:386-413), applied to CSV files
\* of up to MaxLines lines (data lines, lines of delimiters only, lines with
\* no text) and to workbooks of up to MaxLines - 1 rows (rows with data,
\* empty rows). The last line of a CSV file has text: the newlines that end
\* a file are no lines.
ExtractFiles ==
    {[filename |-> <<"f", ".", "c", "s", "v">>, format |-> "csv", lines |-> ls] :
        ls \in {q \in SeqsUpTo({FullLine, BlankLine, NoTextLine}, MaxLines) :
                    q # <<>> => q[Len(q)] # NoTextLine}}
    \cup {[filename |-> <<"f", ".", "X", "L", "S", "X">>, format |-> "excel", lines |-> ls] :
        ls \in SeqsUpTo({FullLine, PartialLine, BlankLine}, MaxLines - 1)}

ExtractTransform ==
    /\ resp.op = "none"
    /\ \E file \in ExtractFiles :
          LET ex == Extract(file)
          IN  resp' = [NoResp EXCEPT !.op = "extract",
                                     !.data = <<file, ex, Transform(ex.df)>>]
    /\ UNCHANGED <<tables, uploads, pc, request, loc, result, calls, faults>>

SpecExtract == Init /\ [][ExtractTransform]_vars

\* Storage after two successful uploads of one to MaxRows rows each, by the
\* same owner or by two owners, and a client of get_filtered_data that asks
\* for one slice, or pages through the result: it asks for offset 0 and then
\* for the next offset, limit further on, until a page comes back empty. A
\* table whose select the backend refuses stays refused while the client pages.
PagingOwners == {BYPASS_USER_ID, <<"A", "2">>}
PagingFilename == <<"f", ".", "c", "s", "v">>

PagingLoc(j, user_id, n) ==
    LET file == [filename |-> PagingFilename, format |-> "csv",
                 lines |-> [k \in 1 .. n |-> FullLine]]
        tr == Transform(Extract(file).df)
    IN  [NoLoc EXCEPT !.filename = PagingFilename, !.user_uuid = uuid_str(user_id),
                      !.upload_uuid = uuid4(j), !.original_rows = tr.original_rows,
                      !.cleaned_rows = tr.cleaned_rows, !.records = tr.records,
                      !.inserted_count = n]

PagingRows(l) ==
    LET rows == build_insert_rows(l.records, l.user_uuid)
    IN  [k \in 1 .. Len(rows) |->
            [id |-> RowId(k), user_id |-> rows[k].user_id, row_data |-> rows[k].row_data]]

InitPaging ==
    \E owner \in [Jobs -> PagingOwners], n \in [Jobs -> 1 .. MaxRows] :
        LET l == [j \in Jobs |-> PagingLoc(j, owner[j], n[j])]
        IN  /\ tables = [tn \in {data_table_name(uuid4(j)) : j \in Jobs} |->
                            PagingRows(l[CHOOSE j \in Jobs : data_table_name(uuid4(j)) = tn])]
            /\ uploads = [j \in Jobs |-> Metadata(l[j])]
            /\ pc = [j \in Jobs |-> "done"]
            /\ request = [j \in Jobs |->
                            [via |-> "service", user_id |-> owner[j],
                             filename |-> PagingFilename, format |-> "csv"]]
            /\ loc = [j \in Jobs |-> NoLoc]
            /\ result = [j \in Jobs |-> Success(l[j])]
            /\ calls = [j \in Jobs |->
                          <<Seen("exec_sql_create", "ok"), Seen("insert_batch", "ok")>>
                          \o (IF n[j] > batch_size THEN <<Seen("insert_batch", "ok")>>
                              ELSE <<>>)
                          \o <<Seen("insert_uploads", "ok")>>]
            /\ faults = 0
            /\ resp = NoResp

PagingFilters ==
    [table_names : TableNameInputs, limit : {1, 2, 1000}, offset : {-1, 0, 1, 2}]

\* one request for a slice
QueryPage ==
    /\ ReadArrives
    /\ \E filters \in PagingFilters, user_id \in PagingOwners, o1 \in ReadOutcomes,
          bad \in {{}, {data_table_name(uuid4(1))}} :
            LET r == get_filtered_data(filters, user_id, o1, bad)
            IN  resp' = [r EXCEPT !.pages = <<r.data>>]
    /\ UNCHANGED <<tables, uploads, pc, request, loc, result, calls, faults>>

\* the client that started at offset 0 asks for the page after the last one
NextPage ==
    /\ resp.op = "get_filtered_data"
    /\ resp.status_code = 200
    /\ resp.offset = (Len(resp.pages) - 1) * resp.limit
    /\ resp.data # <<>>
    /\ \E o1 \in ReadOutcomes, bad \in {resp.skipped} :
            LET filters == [table_names |-> resp.table_names, limit |-> resp.limit,
                            offset |-> resp.offset + resp.limit]
                r == get_filtered_data(filters, resp.user_id, o1, bad)
            IN  resp' = [r EXCEPT !.pages = Append(resp.pages, r.data)]
    /\ UNCHANGED <<tables, uploads, pc, request, loc, result, calls, faults>>

NextPaging == QueryPage \/ NextPage

SpecPaging == InitPaging /\ [][NextPaging]_vars

\* ------------------------------------------------------------------ properties
\* Vocabulary of the properties below.
TableOf(j) == data_table_name(uuid4(j))
Issued(j, op) == \E n \in DOMAIN calls[j] : calls[j][n].op = op
IssuedAt(j, op) == {n \in DOMAIN calls[j] : calls[j][n].op = op}
Cataloged(upload_id) == \E n \in DOMAIN uploads : uploads[n].id = upload_id
CatalogRows(upload_id) == SelectSeq(uploads, LAMBDA m : m.id = upload_id)
HasRows(tn) == TableExists(tn) /\ tables[tn] # <<>>
NoIngestionInFlight == \A j \in Jobs : pc[j] \in {"idle", "done"}
Failed(j) == pc[j] = "done" /\ result[j].kind \notin {"none", "return"}
FailedWith(j, what) ==
    /\ pc[j] = "done"
    /\ result[j].kind = "HTTPException"
    /\ result[j].detail[1] = what
InsertOps == {"insert_batch", "insert_single"}
LoadStarted(j) == Issued(j, "insert_batch")
CatalogInsertFailed(j) ==
    \E n \in DOMAIN calls[j] : calls[j][n] = [op |-> "insert_uploads", seen |-> "raise"]
LastCall(j) == calls[j][Len(calls[j])]

\* C1 (as stated): whenever no ingestion is in flight, an upload has a catalog
\* entry if and only if its physical table holds at least one row.
C1_CatalogIffRows ==
    NoIngestionInFlight =>
        \A j \in Jobs : Cataloged(uuid4(j)) <=> HasRows(TableOf(j))

\* the number of batches of a load, and the single-row inserts its failed
\* batches call for
BatchCount(l) == (Len(l.insert_rows) + batch_size - 1) \div batch_size
BatchCalls(j) == SelectSeq(calls[j], LAMBDA c : c.op = "insert_batch")
RECURSIVE FallbackRows(_, _, _)
FallbackRows(j, l, m) ==
    IF m = 0 THEN 0
    ELSE FallbackRows(j, l, m - 1)
         + (IF BatchCalls(j)[m].seen = "raise"
               THEN Len(batch_at(l.insert_rows, (m - 1) * batch_size))
               ELSE 0)

C2_ReadyForCatalog(j) ==
    /\ loc[j].inserted_count > 0
    /\ loc[j].i >= Len(loc[j].insert_rows)
    /\ Len(BatchCalls(j)) = BatchCount(loc[j])
    /\ Cardinality(IssuedAt(j, "insert_single")) = FallbackRows(j, loc[j], BatchCount(loc[j]))

C2_Inv ==
    \A j \in Jobs :
        /\ pc[j] = "catalog" => C2_ReadyForCatalog(j)
        /\ Issued(j, "insert_uploads") =>
              /\ Cardinality(IssuedAt(j, "insert_uploads")) = 1
              /\ \A n \in DOMAIN calls[j], m \in IssuedAt(j, "insert_uploads") :
                    calls[j][n].op \in InsertOps => n < m
        /\ (\/ FailedWith(j, "Failed to create table")
            \/ FailedWith(j, "No valid data to insert")
            \/ FailedWith(j, "No rows were successfully inserted"))
              => ~Issued(j, "insert_uploads")

C2_Step ==
    \A j \in Jobs :
        Len(calls'[j]) > Len(calls[j]) /\ calls'[j][Len(calls'[j])].op = "insert_uploads"
            => pc[j] = "catalog" /\ C2_ReadyForCatalog(j)

\* C2: the catalog insert is issued only once every batch, and every fallback
\* single-row insert of a failed batch, has been attempted and the running
\* inserted count is positive; an ingestion that fails in provisioning or in
\* the load never issues it.
C2_CatalogAfterLoad == []C2_Inv /\ [][C2_Step]_vars

\* C2 witness: a catalog insert issued after a batch fell back to single rows
C2_Witness ==
    \E j \in Jobs : Issued(j, "insert_single") /\ Issued(j, "insert_uploads")

\* C3 (as stated): an ingestion that fails after its table was provisioned
\* (no valid rows, zero rows inserted, a backend exception in the load) has
\* attempted to drop the table by the time the failure reaches the caller.
C3_DropBeforeFailure ==
    \A j \in Jobs :
        Failed(j) /\ (LoadStarted(j) \/ FailedWith(j, "No valid data to insert"))
            => Issued(j, "exec_sql_drop")

\* C4: an ingestion that returns "success" has 0 < inserted_rows <=
\* cleaned_rows, and exactly one catalog row for its upload_id, whose rows
\* field is cleaned_rows.
C4_SuccessAccounting ==
    \A j \in Jobs :
        result[j].kind = "return" =>
            LET body == result[j].body
            IN  /\ body.status = "success"
                /\ 0 < body.inserted_rows
                /\ body.inserted_rows <= body.cleaned_rows
                /\ Len(CatalogRows(body.upload_id)) = 1
                /\ CatalogRows(body.upload_id)[1].rows = body.cleaned_rows

\* C4 witness: a success that inserted fewer rows than it cleaned
C4_Witness ==
    \E j \in Jobs :
        /\ result[j].kind = "return"
        /\ result[j].body.inserted_rows < result[j].body.cleaned_rows

\* C5 (as stated): when the catalog insert fails after the load, the failure
\* is reported and nothing is rolled back: no drop is attempted, the table and
\* its rows stay, and there is no catalog entry.
C5_NoRollback ==
    \A j \in Jobs :
        pc[j] = "done" /\ CatalogInsertFailed(j) =>
            /\ Failed(j)
            /\ ~Issued(j, "exec_sql_drop")
            /\ HasRows(TableOf(j))
            /\ ~Cataloged(uuid4(j))

\* C5 (amended): when the catalog insert fails after the load, the ingestion
\* attempts to drop the physical table and then reports the failure as a 500
\* "ETL processing failed"; the table is still there only if that drop raised.
C5_DropThenReport ==
    \A j \in Jobs :
        /\ pc[j] = "cleanup" => CatalogInsertFailed(j) /\ ~Issued(j, "exec_sql_drop")
        /\ pc[j] = "done" /\ CatalogInsertFailed(j) =>
              /\ result[j] = HTTPException(500, <<"ETL processing failed",
                                                  "insert into uploads failed">>)
              /\ upload_file_status(j) = 500
              /\ LastCall(j).op = "exec_sql_drop"
              /\ Cardinality(IssuedAt(j, "exec_sql_drop")) = 1
              /\ TableExists(TableOf(j)) => LastCall(j).seen = "raise"

\* C5 witness: a failed catalog insert whose table was dropped
C5_Witness ==
    \E j \in Jobs :
        /\ pc[j] = "done"
        /\ CatalogInsertFailed(j)
        /\ LastCall(j) = [op |-> "exec_sql_drop", seen |-> "ok"]
        /\ ~TableExists(TableOf(j))

\* C9 (as stated): an owner identifier that is no valid UUID makes ingest,
\* fetchRows and queryFiltered fail with status 400, and ingest creates no
\* table and no catalog entry.
C9_InvalidOwnerIsCallerError ==
    /\ \A j \in Jobs :
          pc[j] = "done" /\ ~uuid_valid(request[j].user_id) =>
              /\ result[j].kind = "HTTPException"
              /\ result[j].status_code = 400
              /\ calls[j] = <<>>
              /\ ~TableExists(TableOf(j))
              /\ ~Cataloged(uuid4(j))
    /\ resp.op \in {"fetch_table_data_rows", "get_filtered_data"}
          /\ ~uuid_valid(resp.user_id) => resp.status_code = 400

\* the load ran through every batch and counted no row
ZeroTotal(j) == Failed(j) /\ LoadStarted(j) /\ ~Issued(j, "insert_uploads")

NoUsableRows(j) ==
    \/ FailedWith(j, "No data found in file after cleaning")
    \/ FailedWith(j, "No valid data to insert")
    \/ ZeroTotal(j)

\* C10 (as stated): EmptyAfterCleaning, NoValidRows and NoRowsInserted each
\* reach the caller as a status 400 with an explanatory detail.
C10_NoUsableRowsAre400 ==
    \A j \in Jobs :
        NoUsableRows(j) =>
            /\ result[j].kind = "HTTPException"
            /\ result[j].status_code = 400
            /\ result[j].detail # <<>>

\* C10 (amended): EmptyAfterCleaning and NoValidRows reach the caller as a
\* status 400, NoRowsInserted as a status 500, each with an explanatory
\* detail; the upload route passes the status on unchanged.
C10_NoUsableRowsStatus ==
    \A j \in Jobs :
        /\ FailedWith(j, "No data found in file after cleaning") =>
              result[j].status_code = 400 /\ calls[j] = <<>>
        /\ FailedWith(j, "No valid data to insert") =>
              result[j].status_code = 400 /\ ~LoadStarted(j)
        /\ ZeroTotal(j) =>
              /\ result[j] = HTTPException(500, <<"No rows were successfully inserted">>)
              /\ LastCall(j).op \in InsertOps
        /\ NoUsableRows(j) /\ request[j].via = "upload_file" =>
              upload_file_status(j) = result[j].status_code

\* C10 witness: one upload found empty after cleaning, another whose load
\* counted no row
C10_Witness ==
    \E j, k \in Jobs :
        /\ FailedWith(j, "No data found in file after cleaning")
        /\ request[j].via = "upload_file"
        /\ ZeroTotal(k)
        /\ request[k].via = "upload_file"

\* vocabulary of the read properties
Requester == uuid_str(resp.user_id)
CatalogedFor(tn, user_uuid) ==
    \E n \in DOMAIN uploads : uploads[n].table_name = tn /\ uploads[n].user_id = user_uuid
RowOwner(r) == IF "_user_id" \in DOMAIN r THEN r["_user_id"] ELSE r["user_id"]
CrossOwnerFetch ==
    /\ resp.op = "fetch_table_data_rows"
    /\ uuid_valid(resp.user_id)
    /\ Cataloged(resp.upload_id)
    /\ \A n \in DOMAIN uploads :
          uploads[n].id = resp.upload_id => uploads[n].user_id # Requester

\* C6: fetch_table_data_rows for an upload cataloged for another owner answers
\* 404 (500 when the catalog query itself fails) without a select on any
\* physical table, and no row it returns belongs to anyone but the requester.
C6_NoCrossOwnerFetch ==
    /\ CrossOwnerFetch =>
          /\ resp.status_code = IF resp.lookup = "ok" THEN 404 ELSE 500
          /\ resp.selected = <<>>
          /\ resp.queries = 1
          /\ resp.data = <<>>
    /\ resp.op \in {"fetch_table_data_rows", "get_file_data"} =>
          \A n \in DOMAIN resp.data : RowOwner(resp.data[n]) = PyStr(Text(Requester))

\* C6 witness: a 404 for another owner's upload whose table holds rows
C6_Witness ==
    /\ CrossOwnerFetch
    /\ resp.status_code = 404
    /\ HasRows(data_table_name(resp.upload_id))

\* C7: get_filtered_data selects only from tables cataloged for the requesting
\* owner, and every row it returns comes from such a table, whatever
\* filters.table_names names.
C7_OnlyOwnTablesRead ==
    resp.op = "get_filtered_data" /\ resp.status_code = 200 =>
        /\ \A n \in DOMAIN resp.selected : CatalogedFor(resp.selected[n], Requester)
        /\ \A n \in DOMAIN resp.data :
              \E m \in DOMAIN uploads :
                  /\ uploads[m].user_id = Requester
                  /\ resp.data[n]["_source_table"] = PyStr(Text(uploads[m].table_name))

\* C7 witness: table_names names another owner's table that holds rows, and
\* the answer still carries the requester's own rows
C7_Witness ==
    /\ resp.op = "get_filtered_data"
    /\ resp.status_code = 200
    /\ resp.data # <<>>
    /\ \E n \in DOMAIN resp.table_names :
          /\ HasRows(resp.table_names[n])
          /\ \E m \in DOMAIN uploads :
                /\ uploads[m].table_name = resp.table_names[n]
                /\ uploads[m].user_id # Requester

\* C8: the preview route answers 400 to a limit above 1000 or not above 0
\* before any storage query; for an accepted limit at most limit rows come
\* back.
C8_LimitBounds ==
    /\ resp.op = "get_file_data" /\ (resp.limit > 1000 \/ resp.limit <= 0) =>
          /\ resp.status_code = 400
          /\ resp.queries = 0
          /\ resp.selected = <<>>
          /\ resp.data = <<>>
    /\ resp.op \in {"get_file_data", "fetch_table_data_rows"} /\ resp.status_code = 200 =>
          /\ resp.limit > 0
          /\ Len(resp.data) <= resp.limit

\* C8 witness: limit 1500 refused for an upload that could have been read
C8_Witness ==
    /\ resp.op = "get_file_data"
    /\ resp.limit = 1500
    /\ resp.status_code = 400
    /\ Len(OwnedUpload(resp.upload_id, uuid_str(BYPASS_USER_ID))) = 1
    /\ HasRows(data_table_name(resp.upload_id))

\* vocabulary of the extraction properties
Requested(j) == pc[j] = "done" /\ request[j].via # "none"
ExtractRaises(j) ==
    Extract([filename |-> request[j].filename, format |-> request[j].format,
             lines |-> <<>>]).raised
ExtractionFailure(j) ==
    /\ Requested(j)
    /\ \/ ~SupportedSuffix(request[j].filename)
       \/ request[j].format = "empty"
       \/ ExtractRaises(j)
       \/ FailedWith(j, "No data found in file after cleaning")

\* C11: a zero-byte file, an unsupported suffix, unparsable bytes and a file
\* with no rows after cleaning each end the ingest with a status 400 before
\* provisioning: no storage call is made, no table and no catalog entry exist.
C11_ExtractionFailsEarly ==
    \A j \in Jobs :
        /\ ExtractionFailure(j) =>
              /\ result[j].kind = "HTTPException"
              /\ result[j].status_code = 400
              /\ result[j].detail # <<>>
              /\ calls[j] = <<>>
              /\ ~TableExists(TableOf(j))
              /\ ~Cataloged(uuid4(j))
              /\ request[j].via = "upload_file" => upload_file_status(j) = 400
        /\ calls[j] # <<>> =>
              /\ ~ExtractRaises(j)
              /\ request[j].format \in {"csv", "excel"}

\* C11 witness: a zero-byte file with a supported suffix, sent to the upload
\* route, and a file of unparsable bytes given to the service
C11_Witness ==
    \E j, k \in Jobs :
        /\ Requested(j)
        /\ request[j].via = "upload_file"
        /\ request[j].format = "empty"
        /\ SupportedSuffix(request[j].filename)
        /\ result[j] = HTTPException(400, <<"Uploaded file is empty">>)
        /\ Requested(k)
        /\ request[k].via = "service"
        /\ request[k].format = "garbage"
        /\ result[k] = FileReadFailed(ParserError)

\* C12 (as stated): an ingest whose suffix is none of .csv, .xls, .xlsx fails
\* with the UnsupportedFormat kind, which is not the kind of a parse failure.
C12_UnsupportedFormatKind ==
    \A j \in Jobs :
        Requested(j) /\ ~SupportedSuffix(request[j].filename) =>
            /\ result[j].kind = "HTTPException"
            /\ result[j].detail[1] \in {"Only CSV and Excel files are supported",
                                        "Unsupported file format"}
            /\ result[j].detail[1] # FileReadFailed(ParserError).detail[1]

\* the normalized records of the files uploaded in SpecQuery
NormalizedRecords ==
    UNION { { make_json_safe(Transform(Extract(f).df).records[n]).v :
                n \in 1 .. Len(Transform(Extract(f).df).records) } :
            f \in {g \in QueryFiles : ~Extract(g).raised} }

\* the ingestion that holds upload_id returned success with every cleaned row
\* counted as inserted
FullyInserted(j) ==
    /\ result[j].kind = "return"
    /\ result[j].body.inserted_rows = result[j].body.cleaned_rows

\* C13 (as stated): after a successful ingestion of n cleaned rows, all
\* inserted, fetch_table_data_rows for the same owner with limit >= n returns
\* exactly n mappings, each with every source column at its normalized value
\* and a record id.
C13_RoundTrip ==
    \A j \in Jobs :
        /\ resp.op = "fetch_table_data_rows"
        /\ resp.upload_id = uuid4(j)
        /\ FullyInserted(j)
        /\ uuid_valid(resp.user_id)
        /\ Requester = uuid_str(request[j].user_id)
        /\ resp.limit >= result[j].body.cleaned_rows
        /\ resp.status_code = 200
        => /\ Len(resp.data) = result[j].body.cleaned_rows
           /\ \A n \in DOMAIN resp.data :
                 /\ Columns \cup {"_record_id"} \subseteq DOMAIN resp.data[n]
                 /\ [c \in Columns |-> resp.data[n][c]] \in NormalizedRecords

\* the stored rows a successful fetch has flattened, in order
FetchedRows == SelectRows(resp.selected[1], Requester, resp.limit)
MetadataKeys == {"_record_id", "_user_id"}

\* C14 (as stated): every key/value pair of a stored payload appears unchanged
\* in the mapping fetch_table_data_rows returns for it, whatever the payload's
\* column names.
C14_PayloadUnchanged ==
    resp.op = "fetch_table_data_rows" /\ resp.status_code = 200 =>
        \A n \in DOMAIN resp.data :
            \A k \in DOMAIN FetchedRows[n].row_data.v :
                /\ k \in DOMAIN resp.data[n]
                /\ resp.data[n][k] = FetchedRows[n].row_data.v[k]

\* C14 (amended): every key/value pair of a stored payload whose key is not
\* _record_id or _user_id appears unchanged in the returned mapping; the keys
\* _record_id and _user_id always hold the row's id and owner, also when the
\* payload has a column of that name.
C14_PayloadUnchangedButMetadata ==
    resp.op = "fetch_table_data_rows" /\ resp.status_code = 200 =>
        /\ Len(resp.data) = Len(FetchedRows)
        /\ \A n \in DOMAIN resp.data :
              /\ \A k \in DOMAIN FetchedRows[n].row_data.v \ MetadataKeys :
                    /\ k \in DOMAIN resp.data[n]
                    /\ resp.data[n][k] = FetchedRows[n].row_data.v[k]
              /\ MetadataKeys \subseteq DOMAIN resp.data[n]
              /\ resp.data[n]["_record_id"] = PyStr(FetchedRows[n].id)
              /\ resp.data[n]["_user_id"] = PyStr(Text(FetchedRows[n].user_id))

\* C14 witness: a fetched row whose payload has columns id and _record_id: id
\* comes back as stored, _record_id comes back as the row's id
C14_Witness ==
    /\ resp.op = "fetch_table_data_rows"
    /\ resp.status_code = 200
    /\ resp.data # <<>>
    /\ {"id", "_record_id"} \subseteq DOMAIN FetchedRows[1].row_data.v
    /\ resp.data[1]["id"] = FetchedRows[1].row_data.v["id"]
    /\ resp.data[1]["_record_id"] # FetchedRows[1].row_data.v["_record_id"]

\* vocabulary of the provisioning properties
ProvisioningOps == {"exec_sql_create", "create_unique_data_table", "execute_sql_check"}
Provisioning(j) == pc[j] \in {"create1", "create2", "probe"}
Steps(j) == Len(calls'[j]) > Len(calls[j])
ProbeRaised(j) == LastCall(j) = [op |-> "execute_sql_check", seen |-> "raise"]

C15_Inv ==
    \A j \in Jobs :
        FailedWith(j, "Failed to create table") /\ TableExists(TableOf(j)) => ProbeRaised(j)

C15_Step ==
    \A j \in Jobs :
        Provisioning(j) /\ TableExists(TableOf(j)) /\ Steps(j) =>
            /\ tables' = tables
            /\ pc'[j] \in {"create2", "probe", "bulk", "done"}
            /\ pc'[j] = "done" =>
                  calls'[j][Len(calls'[j])] = [op |-> "execute_sql_check", seen |-> "raise"]

\* C15: provisioning a table that already exists (an earlier strategy created
\* it) does not fail and leaves the one table as it was; only an existence
\* probe that itself raises ends it with "Failed to create table".
C15_ProvisioningIdempotent == []C15_Inv /\ [][C15_Step]_vars

\* C15 witness: both creation strategies raised, the probe found the table
\* that one of them had created, and the load started
C15_Witness ==
    \E j \in Jobs :
        /\ pc[j] = "bulk"
        /\ calls[j] = <<[op |-> "exec_sql_create", seen |-> "raise"],
                        [op |-> "create_unique_data_table", seen |-> "raise"],
                        [op |-> "execute_sql_check", seen |-> "ok"]>>
        /\ TableExists(TableOf(j))

\* what a JSON encoder accepts: null, strings, booleans, integers, finite
\* floats, and lists and string-keyed mappings of such values
RECURSIVE JsonEncodable(_)
JsonEncodable(obj) ==
    IF obj.t = "list" THEN \A i \in DOMAIN obj.v : JsonEncodable(obj.v[i])
    ELSE IF obj.t = "dict" THEN \A k \in DOMAIN obj.v : JsonEncodable(obj.v[k])
    ELSE \/ obj.t \in {"NoneType", "str", "bool", "int"}
         \/ obj.t \in {"float", "np.float64"} /\ obj.v \notin NonFinite

\* C16 (as stated): for every value make_json_safe accepts, its result is
\* JSON-encodable and is a fixed point of make_json_safe.
C16_NormalizeIdempotentEncodable ==
    resp.op = "make_json_safe" =>
        /\ JsonEncodable(resp.data[2])
        /\ make_json_safe(resp.data[2]) = resp.data[2]

\* every canonical UUID of the model's alphabet
CanonicalUuids == {<<a, "-", b>> : a, b \in HexDigits}

TableNamesInjective ==
    \A u1, u2 \in CanonicalUuids :
        /\ SubSeq(data_table_name(u1), 1, 5) = <<"d", "a", "t", "a", "_">>
        /\ Len(data_table_name(u1)) = 5 + Len(u1)
        /\ \A i \in 1 .. Len(u1) :
              data_table_name(u1)[5 + i] = IF u1[i] = "-" THEN "_" ELSE u1[i]
        /\ data_table_name(u1) = data_table_name(u2) => u1 = u2

\* a step of ingestion j leaves every table but its own as it was
TouchesOwnTableOnly(j) ==
    \A tn \in (DOMAIN tables \cup DOMAIN tables') \ {TableOf(j)} :
        /\ tn \in DOMAIN tables
        /\ tn \in DOMAIN tables'
        /\ tables'[tn] = tables[tn]

C17_Inv ==
    /\ TableNamesInjective
    /\ \A j, k \in Jobs : j # k => uuid4(j) # uuid4(k) /\ TableOf(j) # TableOf(k)
    /\ \A tn \in DOMAIN tables :
          \E j \in Jobs :
              /\ tn = TableOf(j)
              /\ Issued(j, "exec_sql_create")
              /\ \A n \in DOMAIN tables[tn] :
                    tables[tn][n].user_id = uuid_str(request[j].user_id)

C17_Step == \A j \in Jobs : Steps(j) => TouchesOwnTableOnly(j)

\* C17: the table name is "data_" plus the upload id with "-" replaced by "_",
\* distinct upload ids give distinct names, and an ingestion provisions, loads
\* and drops no table but the one of its own upload id.
C17_OwnTablePerUpload == []C17_Inv /\ [][C17_Step]_vars

\* C17 witness: two uploads, each with rows in its own table
C17_Witness ==
    /\ HasRows(TableOf(1))
    /\ HasRows(TableOf(2))
    /\ Cardinality(DOMAIN tables) = 2

OthersCatalogRows(j) == SelectSeq(uploads, LAMBDA m : m.id # uuid4(j))
Acts(j) == Steps(j) \/ pc'[j] # pc[j]

C18_Inv ==
    /\ \A j \in Jobs :
          /\ Len(CatalogRows(uuid4(j))) <= 1
          /\ Cataloged(uuid4(j)) => Issued(j, "insert_uploads")
          /\ result[j].kind = "return" =>
                /\ Len(CatalogRows(uuid4(j))) = 1
                /\ CatalogRows(uuid4(j))[1].table_name = TableOf(j)
                /\ CatalogRows(uuid4(j))[1].user_id = uuid_str(request[j].user_id)
                /\ HasRows(TableOf(j))
                /\ ~Issued(j, "exec_sql_drop")
    /\ \A n \in DOMAIN uploads : \E j \in Jobs : uploads[n].id = uuid4(j)
    /\ \A tn \in DOMAIN tables :
          \E j \in Jobs :
              /\ tn = TableOf(j)
              /\ request[j].via # "none"
              /\ \A n \in DOMAIN tables[tn] :
                    tables[tn][n].user_id = uuid_str(request[j].user_id)

C18_Step ==
    \A j \in Jobs :
        Acts(j) =>
            /\ TouchesOwnTableOnly(j)
            /\ OthersCatalogRows(j)' = OthersCatalogRows(j)
            /\ \A k \in Jobs \ {j} :
                  /\ pc'[k] = pc[k]
                  /\ loc'[k] = loc[k]
                  /\ result'[k] = result[k]
                  /\ calls'[k] = calls[k]

\* C18: however the storage calls of two ingestions interleave, each creates,
\* loads and drops only its own table and changes nothing of the other's
\* catalog row, locals or result; the catalog holds at most one entry per
\* upload and exactly one, its own, for every ingestion that returned success.
C18_ConcurrentIngestionsIndependent == []C18_Inv /\ [][C18_Step]_vars

\* C18 witness: the second ingestion has loaded and stands before its catalog
\* insert while the first, started earlier, is still between two batches; the
\* first then fails and drops its table while the second succeeds
C18_Witness ==
    /\ pc[1] = "bulk"
    /\ loc[1].i > 0
    /\ pc[2] = "catalog"
    /\ HasRows(TableOf(1))
    /\ HasRows(TableOf(2))

OriginalError == APIError("insert into uploads failed").detail[1]
DropRaised(j) == LastCall(j) = [op |-> "exec_sql_drop", seen |-> "raise"]

\* C20: when the cleanup drop raises, the ingestion still fails, with the 500
\* that carries the original error; once a drop was issued the ingestion
\* never returns success.
C20_CleanupFailureKeepsError ==
    \A j \in Jobs :
        /\ pc[j] = "cleanup" => loc[j].e = OriginalError
        /\ calls[j] # <<>> /\ DropRaised(j) =>
              /\ pc[j] = "done"
              /\ result[j].kind = "HTTPException"
              /\ result[j].status_code = 500
              /\ result[j].detail = <<"ETL processing failed", OriginalError>>
        /\ Issued(j, "exec_sql_drop") => result[j].kind # "return"

\* C20 witness: the drop raised and did not take effect, the table is still
\* there, and the failure reported is the catalog insert's
C20_Witness ==
    \E j \in Jobs :
        /\ pc[j] = "done"
        /\ calls[j] # <<>>
        /\ DropRaised(j)
        /\ HasRows(TableOf(j))
        /\ result[j].detail = <<"ETL processing failed", OriginalError>>

\* a provisioning strategy answered without raising before call n of job j
ProvisionedBefore(j, n) ==
    \E k \in 1 .. n - 1 :
        /\ calls[j][k].op \in ProvisioningOps
        /\ calls[j][k].seen = "ok"

\* C21: within one ingestion every bulk or single-row insert comes after a
\* provisioning strategy that succeeded, and the load is only in progress
\* once provisioning has succeeded.
C21_NoInsertBeforeProvisioned ==
    \A j \in Jobs :
        /\ \A n \in DOMAIN calls[j] :
              calls[j][n].op \in InsertOps => ProvisionedBefore(j, n)
        /\ pc[j] \in {"bulk", "single", "catalog"} =>
              ProvisionedBefore(j, Len(calls[j]) + 1)
        /\ Provisioning(j) => ~LoadStarted(j)

\* C21 witness: both creation strategies raised, the probe confirmed the
\* table, and the first bulk insert was issued after it
C21_Witness ==
    \E j \in Jobs :
        /\ Len(calls[j]) >= 4
        /\ calls[j][2] = [op |-> "create_unique_data_table", seen |-> "raise"]
        /\ calls[j][3] = [op |-> "execute_sql_check", seen |-> "ok"]
        /\ calls[j][4].op = "insert_batch"

\* the strategies in their order, and the provisioning calls of a job
StrategyOrder == <<"exec_sql_create", "create_unique_data_table", "execute_sql_check">>
ProvisioningCalls(j) == SelectSeq(calls[j], LAMBDA c : c.op \in ProvisioningOps)
ProbeCall(seen) == [op |-> "execute_sql_check", seen |-> seen]
BothCreationsRaised(j) ==
    /\ Len(calls[j]) >= 2
    /\ calls[j][1] = [op |-> "exec_sql_create", seen |-> "raise"]
    /\ calls[j][2] = [op |-> "create_unique_data_table", seen |-> "raise"]

\* C22: the provisioning calls of an ingestion are a prefix of its calls, in
\* the order exec_sql, create_unique_data_table, existence probe; a strategy
\* is called only when the one before it raised; provisioning ends with
\* "Failed to create table" exactly when both creations raised and the probe
\* raised or found no table, and the failure carries the error of exec_sql.
C22_StrategyOrder ==
    \A j \in Jobs :
        /\ \A n \in DOMAIN calls[j] :
              calls[j][n].op \in ProvisioningOps =>
                  /\ n <= 3
                  /\ calls[j][n].op = StrategyOrder[n]
                  /\ n > 1 => calls[j][n - 1] = [op |-> StrategyOrder[n - 1], seen |-> "raise"]
        /\ calls[j] # <<>> => calls[j][1].op = "exec_sql_create"
        /\ FailedWith(j, "Failed to create table") =>
              /\ BothCreationsRaised(j)
              /\ Len(calls[j]) = 3
              /\ \/ calls[j][3] = ProbeCall("raise")
                 \/ calls[j][3] = ProbeCall("ok") /\ ~TableExists(TableOf(j))
              /\ result[j] = HTTPException(500, <<"Failed to create table", "exec_sql failed">>)
        /\ /\ pc[j] = "done"
           /\ BothCreationsRaised(j)
           /\ Len(calls[j]) >= 3
           /\ \/ calls[j][3] = ProbeCall("raise")
              \/ Len(calls[j]) = 3
           => FailedWith(j, "Failed to create table")

\* C22 witness: the probe itself raised although the table was there, and
\* provisioning failed with the error of exec_sql
C22_Witness ==
    \E j \in Jobs :
        /\ FailedWith(j, "Failed to create table")
        /\ calls[j][3] = ProbeCall("raise")
        /\ TableExists(TableOf(j))
        /\ result[j].detail[2] = "exec_sql failed"

\* the insert calls of a job, the length of the m-th batch of n rows, and the
\* number of calls that raised, over all jobs
LoadCalls(j) == SelectSeq(calls[j], LAMBDA c : c.op \in InsertOps)
BatchesOf(n) == (n + batch_size - 1) \div batch_size
BatchLen(n, m) == Min(batch_size, n - (m - 1) * batch_size)
RaisedCalls(j) == Len(SelectSeq(calls[j], LAMBDA c : c.seen = "raise"))
\* every fault so far was a call that raised: no bulk insert answered without data
EveryFaultRaised == faults = RaisedCalls(1) + RaisedCalls(2)

\* q is what is left of the insert calls of a load of n rows when batch m is
\* next: a bulk insert, followed when it raised by one single-row insert per
\* row of that batch, then batch m + 1
RECURSIVE BatchesInOrder(_, _, _)
BatchesInOrder(q, n, m) ==
    IF q = <<>> THEN TRUE
    ELSE /\ m <= BatchesOf(n)
         /\ Head(q).op = "insert_batch"
         /\ IF Head(q).seen = "ok" THEN BatchesInOrder(Tail(q), n, m + 1)
            ELSE LET rest == Tail(q)
                     b == Min(BatchLen(n, m), Len(rest))
                 IN  /\ \A k \in 1 .. b : rest[k].op = "insert_single"
                     /\ b = BatchLen(n, m) =>
                           BatchesInOrder(SubSeq(rest, b + 1, Len(rest)), n, m + 1)

\* the rows of the bulk inserts that did not raise plus the single-row
\* inserts that did not raise
RECURSIVE RowsCounted(_, _, _)
RowsCounted(q, n, m) ==
    IF q = <<>> THEN 0
    ELSE IF Head(q).op = "insert_single"
        THEN (IF Head(q).seen = "ok" THEN 1 ELSE 0) + RowsCounted(Tail(q), n, m)
    ELSE (IF Head(q).seen = "ok" THEN BatchLen(n, m) ELSE 0) + RowsCounted(Tail(q), n, m + 1)

LoadAccounted(j, n, inserted_count) ==
    /\ BatchesInOrder(LoadCalls(j), n, 1)
    /\ inserted_count <= RowsCounted(LoadCalls(j), n, 1)
    /\ EveryFaultRaised => inserted_count = RowsCounted(LoadCalls(j), n, 1)

AllSinglesOk(j) == \A n \in IssuedAt(j, "insert_single") : calls[j][n].seen = "ok"

\* C23: the insert calls of a load are its batches in order, each failed bulk
\* insert followed by one single-row insert per row of that batch; a raise in
\* either kind of insert leaves the load running; the running count is the
\* rows of the bulk inserts that answered with data plus the single-row
\* inserts that did not raise; a load whose failed batches were all inserted
\* row by row, the other bulk inserts answering with data, returns success
\* with inserted_rows = cleaned_rows.
C23_BatchIsolation ==
    \A j \in Jobs :
        /\ pc[j] \in {"bulk", "single", "catalog"} =>
              LoadAccounted(j, Len(loc[j].insert_rows), loc[j].inserted_count)
        /\ pc[j] = "catalog" =>
              Len(BatchCalls(j)) = BatchesOf(Len(loc[j].insert_rows))
        /\ pc[j] = "bulk" =>
              /\ loc[j].i = Len(BatchCalls(j)) * batch_size
              /\ loc[j].i < Len(loc[j].insert_rows)
        /\ result[j].kind = "return" =>
              /\ LoadAccounted(j, result[j].body.cleaned_rows, result[j].body.inserted_rows)
              /\ Len(BatchCalls(j)) = BatchesOf(result[j].body.cleaned_rows)
              /\ EveryFaultRaised /\ AllSinglesOk(j) =>
                    result[j].body.inserted_rows = result[j].body.cleaned_rows
        /\ calls[j] # <<>> /\ LastCall(j) = [op |-> "insert_batch", seen |-> "raise"] =>
              pc[j] = "single"
        /\ calls[j] # <<>> /\ LastCall(j) = [op |-> "insert_single", seen |-> "raise"] =>
              \/ pc[j] \in {"bulk", "single", "catalog"}
              \/ FailedWith(j, "No rows were successfully inserted")

\* C23 witness: of two batches one bulk insert raised, each of its rows was
\* then inserted singly, and the ingestion returned inserted_rows =
\* cleaned_rows
C23_Witness ==
    \E j \in Jobs :
        /\ result[j].kind = "return"
        /\ Len(BatchCalls(j)) = 2
        /\ \E m \in 1 .. 2 : BatchCalls(j)[m].seen = "raise"
        /\ Issued(j, "insert_single")
        /\ AllSinglesOk(j)
        /\ result[j].body.inserted_rows = result[j].body.cleaned_rows

\* vocabulary of the analytics query: the owner asking, the tables the
\* catalog resolves for them in catalog order, a stored row as the query
\* returns it, and positions a .. b - 1 (from 0) of a sequence
Asker == uuid_str(resp.user_id)
AnalyticsAnswered == resp.op = "get_filtered_data" /\ resp.status_code = 200
CatalogTables ==
    LET mine == SelectSeq(uploads, LAMBDA m :
                    /\ m.user_id = Asker
                    /\ \/ resp.table_names = <<>>
                       \/ \E n \in DOMAIN resp.table_names : resp.table_names[n] = m.table_name)
    IN  [n \in DOMAIN mine |-> mine[n].table_name]
OwnerRows(tn) == SelectSeq(tables[tn], LAMBDA r : r.user_id = Asker)
Tagged(r, tn) ==
    [k \in DOMAIN r.row_data.v \cup {"_source_table", "_record_id"} |->
        IF k = "_source_table" THEN PyStr(Text(tn))
        ELSE IF k = "_record_id" THEN PyStr(r.id)
        ELSE r.row_data.v[k]]
Positions(q, a, b) == SubSeq(q, (IF a < 0 THEN 0 ELSE a) + 1, Min(b, Len(q)))

\* the first at most `limit` owner rows of each table of tns outside `skip`,
\* tagged, one table after the other
RECURSIVE Concatenated(_, _, _)
Concatenated(tns, limit, skip) ==
    IF tns = <<>> THEN <<>>
    ELSE LET tn == Head(tns)
             rows == IF tn \in skip THEN <<>> ELSE OwnerRows(tn)
             first == SubSeq(rows, 1, Min(limit, Len(rows)))
         IN  [n \in DOMAIN first |-> Tagged(first[n], tn)]
             \o Concatenated(Tail(tns), limit, skip)

\* C24 (as stated): the answer is positions offset .. offset + limit - 1
\* (offset from 0 on) of the concatenation over every resolved table, has at
\* most limit elements, and is empty when the owner has no catalog rows.
C24_ExactSlice ==
    AnalyticsAnswered =>
        /\ resp.offset >= 0 =>
              resp.data = Positions(Concatenated(CatalogTables, resp.limit, {}),
                                    resp.offset, resp.offset + resp.limit)
        /\ Len(resp.data) <= resp.limit
        /\ CatalogTables = <<>> => resp.data = <<>>

\* C24 (amended): the answer is positions offset .. offset + limit - 1
\* (offset from 0 on) of the concatenation over the resolved tables whose
\* select did not raise, a table whose select raised being left out; it has
\* at most limit elements and is empty when the owner has no catalog rows.
C24_SliceOfAnsweredTables ==
    AnalyticsAnswered =>
        /\ resp.selected = CatalogTables
        /\ resp.offset >= 0 =>
              resp.data = Positions(Concatenated(CatalogTables, resp.limit, resp.skipped),
                                    resp.offset, resp.offset + resp.limit)
        /\ Len(resp.data) <= resp.limit
        /\ CatalogTables = <<>> => resp.data = <<>>

\* C24 witness: two tables resolved, the select on the first raised, the
\* second holds more rows than the limit, and the answer is the one row left
\* after the offset
C24_Witness ==
    /\ AnalyticsAnswered
    /\ Len(CatalogTables) = 2
    /\ resp.skipped = {CatalogTables[1]}
    /\ Len(OwnerRows(CatalogTables[2])) > resp.limit
    /\ resp.offset = 1
    /\ Len(resp.data) = 1
    /\ resp.data[1]["_record_id"] = PyStr(RowId(2))

\* a float that is NaN, +Infinity or -Infinity, at any depth of a value
RECURSIVE HasNonFiniteFloat(_)
HasNonFiniteFloat(obj) ==
    IF obj.t = "dict" THEN \E k \in DOMAIN obj.v : HasNonFiniteFloat(obj.v[k])
    ELSE IF obj.t = "list" THEN \E i \in DOMAIN obj.v : HasNonFiniteFloat(obj.v[i])
    ELSE obj.t \in {"float", "np.float64", "np.float32"} /\ obj.v \in NonFinite

\* C25 (as stated): what make_json_safe returns never contains a float that
\* is NaN, +Infinity or -Infinity, whether the argument held it as a native
\* float or as a numpy float.
C25_NoNonFiniteFloat ==
    resp.op = "make_json_safe" => ~HasNonFiniteFloat(resp.data[2])

\* the lines of the file given to extraction, those with every cell empty,
\* and what extraction made of the file
GivenLines == resp.data[1].lines
FullyEmpty(line) == \A col \in Columns : line[col] = ""
FullyEmptyLines == Len(SelectSeq(GivenLines, FullyEmpty))
Extracted == resp.data[3]
Parsable == resp.op = "extract" /\ ~resp.data[2].raised
HasDataRow == \E n \in DOMAIN GivenLines : ~FullyEmpty(GivenLines[n])

\* C26 (as stated): for a parsable file with at least one non-empty row,
\* cleaned_rows <= original_rows, there are cleaned_rows records, and
\* cleaned_rows is original_rows minus the number of fully-empty rows of the
\* file.
C26_EmptyRowsRemoved ==
    Parsable /\ HasDataRow =>
        /\ Extracted.cleaned_rows <= Extracted.original_rows
        /\ Len(Extracted.records) = Extracted.cleaned_rows
        /\ Extracted.cleaned_rows = Extracted.original_rows - FullyEmptyLines

\* the rows an ingestion's physical table holds
Persisted(j) == IF TableExists(TableOf(j)) THEN Len(tables[TableOf(j)]) ELSE 0

\* C27 (as stated): when an ingestion returns success, inserted_rows is the
\* number of rows its physical table holds.
C27_InsertedIsPersisted ==
    \A j \in Jobs :
        result[j].kind = "return" => result[j].body.inserted_rows = Persisted(j)

\* C28 (as stated): during a load and after a success the physical table
\* never holds more rows than cleaned_rows.
C28_PersistedAtMostOnce ==
    \A j \in Jobs :
        /\ pc[j] \in {"bulk", "single", "catalog", "cleanup"} =>
              Persisted(j) <= loc[j].cleaned_rows
        /\ result[j].kind = "return" => Persisted(j) <= result[j].body.cleaned_rows

\* C29 (as stated): no catalog entry refers to a physical table that its
\* ingestion has dropped; the drop is never issued once the catalog row of the
\* upload is written.
C29_NoDropOfCatalogedTable ==
    \A j \in Jobs :
        /\ Cataloged(uuid4(j)) => TableExists(TableOf(j))
        /\ Cataloged(uuid4(j)) => pc[j] # "cleanup"

\* the client has paged from offset 0 to the first empty page, no select
\* having raised, and the rows of all its pages
RECURSIVE Flat(_)
Flat(qs) == IF qs = <<>> THEN <<>> ELSE Head(qs) \o Flat(Tail(qs))
PagedToEnd ==
    /\ AnalyticsAnswered
    /\ resp.offset = (Len(resp.pages) - 1) * resp.limit
    /\ resp.data = <<>>
    /\ resp.skipped = {}
Returned(tn, r) ==
    {n \in DOMAIN Flat(resp.pages) :
        /\ Flat(resp.pages)[n]["_source_table"] = PyStr(Text(tn))
        /\ Flat(resp.pages)[n]["_record_id"] = PyStr(r.id)}

\* C30 (as stated): the pages for offsets 0, L, 2L, ... taken together hold
\* every owner row of every resolved table, each exactly once.
C30_PagingComplete ==
    PagedToEnd =>
        \A m \in DOMAIN CatalogTables :
            \A k \in DOMAIN OwnerRows(CatalogTables[m]) :
                Cardinality(Returned(CatalogTables[m], OwnerRows(CatalogTables[m])[k])) = 1

====
